---- MODULE Spec2Model ----
(***************************************************************************)
(* A model of `later`, a nested to-do list manager (src/src/lib.rs and     *)
(* src/src/main.rs).  One run of the program is one command: it loads the  *)
(* persisted document, applies one subcommand to the active list and, when *)
(* the subcommand succeeds, saves the whole mapping again.                 *)
(*                                                                         *)
(* Path segments are 0-based as in the program; TLA+ sequences are         *)
(* 1-based, so child i of a list is self.list[i + 1].                      *)
(***************************************************************************)
EXTENDS Integers, Sequences, FiniteSets, Bags, TLC

\* The most items (entries and sublists, the roots not counted) the stored
\* document may hold; add is not taken beyond it.
MaxNodes == 3

DEFAULT_LIST == "to-do"

TooBig == "Invalid index! (too big)"
NonList == "Invalid index! (sub-indexing a non-list)"
Cancelled == "Cancelled."
Interrupted == "readline error"

(***************************************************************************)
(* Option<DateMaybeTime>: None, Date(day) or DateTime(day, time).          *)
(***************************************************************************)
NoDate == [kind |-> "None", day |-> 0, time |-> 0]
Date(d) == [kind |-> "Date", day |-> d, time |-> 0]
DateTime(d, t) == [kind |-> "DateTime", day |-> d, time |-> t]

\* Local::now() as the default list's example entry carries it.
Now == DateTime(1, 1)

(***************************************************************************)
(* ListItem: Entry(TodoEntry) or List(TodoList).  Both are records of one  *)
(* shape; an Entry has no children.                                        *)
(***************************************************************************)
Entry(title, date) ==
    [kind |-> "Entry", title |-> title, date |-> date, list |-> <<>>]

from_info(title, date) ==
    [kind |-> "List", title |-> title, date |-> date, list |-> <<>>]

default ==
    [kind |-> "List", title |-> DEFAULT_LIST, date |-> NoDate,
     list |-> <<Entry("Hello, world!", Now)>>]

\* The value of `item` in a result that returns no item.
NoItem == [kind |-> "None", title |-> "", date |-> NoDate, list |-> <<>>]

\* Vec::remove(i), Vec::insert(i, x) and the replacement of element i.
VecRemove(v, i) == SubSeq(v, 1, i) \o SubSeq(v, i + 2, Len(v))
VecInsert_at_end(v, i, x) == Append(v, x)
VecInsert(v, i, x) == SubSeq(v, 1, i) \o <<x>> \o SubSeq(v, i + 1, Len(v))
VecSet(v, i, x) == [v EXCEPT ![i + 1] = x]

Ok(self) == [ok |-> TRUE, err |-> "", self |-> self, item |-> NoItem]
OkItem(self, item) == [ok |-> TRUE, err |-> "", self |-> self, item |-> item]
Bail(self, msg) == [ok |-> FALSE, err |-> msg, self |-> self, item |-> NoItem]

(***************************************************************************)
(* Faulty variants of the operations below, each with one slip of the kind *)
(* the code could contain.  The properties at the end are checked against  *)
(* them as well: each property has a variant that breaks it.               *)
(***************************************************************************)
RECURSIVE add_item_bug(_, _, _, _)
add_item_bug(self, item, index, bug) ==
    IF Len(index) = 0
    THEN Ok([self EXCEPT !.list = IF bug = "push_front" THEN <<item>> \o self.list
                                  ELSE Append(self.list, item)])
    ELSE LET i == Head(index)
             rest == Tail(index)
         IN IF i < Len(self.list)
            THEN LET child == self.list[i + 1]
                 IN IF child.kind = "List"
                    THEN LET r == add_item_bug(child, item, rest, bug)
                         IN [r EXCEPT !.self =
                                [self EXCEPT !.list = VecSet(self.list, i, r.self)]]
                    ELSE IF Len(rest) = 0
                         THEN LET new_list == from_info(child.title, child.date)
                                  r == add_item_bug(new_list, item, rest, bug)
                              IN [r EXCEPT !.self =
                                     [self EXCEPT !.list = VecSet(self.list, i, r.self)]]
                         ELSE Bail(IF bug = "promotes_first"
                                   THEN [self EXCEPT !.list =
                                            VecSet(self.list, i,
                                                   from_info(child.title, child.date))]
                                   ELSE self,
                                   IF bug = "wrong_message" THEN TooBig ELSE NonList)
            ELSE Bail(self, TooBig)

\* add_item makes a list of the Entry before it finds the path too long.
add_item_promotes_first(self, item, index) ==
    add_item_bug(self, item, index, "promotes_first")
\* add_item pushes the item in front of the children.
add_item_push_front(self, item, index) == add_item_bug(self, item, index, "push_front")
\* add_item reports a descent through an Entry as 'too big'.
add_item_wrong_message(self, item, index) ==
    add_item_bug(self, item, index, "wrong_message")

RECURSIVE remove_item_bug(_, _, _)
remove_item_bug(self, index, bug) ==
    LET i == Head(index)
        rest == Tail(index)
    IN IF Len(rest) = 0
       THEN IF i < Len(self.list)
            THEN OkItem([self EXCEPT !.list = VecRemove(self.list, i)],
                        self.list[i + 1])
            ELSE Bail(self, TooBig)
       ELSE IF i < Len(self.list)
            THEN LET child == self.list[i + 1]
                 IN IF child.kind = "List"
                    THEN LET r == remove_item_bug(child, rest, bug)
                             empty ==
                                 CASE bug = "keeps_empty" -> FALSE
                                   [] bug = "demotes_early" -> Len(r.self.list) <= 1
                                   [] OTHER -> Len(r.self.list) = 0
                         IN IF ~r.ok
                            THEN Bail([self EXCEPT !.list =
                                          VecSet(self.list, i, r.self)], r.err)
                            ELSE IF empty
                                 THEN OkItem(
                                        [self EXCEPT !.list =
                                            VecInsert(VecRemove(self.list, i), i,
                                                Entry(r.self.title,
                                                      IF bug = "drops_date" THEN NoDate
                                                      ELSE r.self.date))],
                                        r.item)
                                 ELSE OkItem(
                                        [self EXCEPT !.list =
                                            VecSet(self.list, i, r.self)],
                                        r.item)
                    ELSE Bail(self, NonList)
            ELSE Bail(self, TooBig)

\* remove_item leaves a sublist without children a sublist.
remove_item_keeps_empty(self, index) == remove_item_bug(self, index, "keeps_empty")
\* remove_item demotes a sublist to an Entry without its date.
remove_item_drops_date(self, index) == remove_item_bug(self, index, "drops_date")
\* remove_item demotes a sublist that still has a child.
remove_item_demotes_early(self, index) == remove_item_bug(self, index, "demotes_early")

RECURSIVE insert_item_bug(_, _, _, _)
insert_item_bug(self, item, index, bug) ==
    LET i == Head(index)
        rest == Tail(index)
    IN IF Len(rest) = 0
       THEN IF (IF bug = "no_append" THEN i < Len(self.list) ELSE i <= Len(self.list))
            THEN Ok([self EXCEPT !.list = VecInsert(self.list, i, item)])
            ELSE Bail(self, TooBig)
       ELSE IF i < Len(self.list)
            THEN LET child == self.list[i + 1]
                 IN IF child.kind = "List"
                    THEN LET r == insert_item_bug(child, item, rest, bug)
                         IN [r EXCEPT !.self =
                                [self EXCEPT !.list = VecSet(self.list, i, r.self)]]
                    ELSE IF Len(rest) = 1 /\ bug # "no_promotion"
                         THEN LET new_list ==
                                      from_info(child.title,
                                                IF bug = "drops_date" THEN NoDate
                                                ELSE child.date)
                                  r == insert_item_bug(new_list, item, rest, bug)
                              IN [r EXCEPT !.self =
                                     [self EXCEPT !.list =
                                         VecInsert(VecRemove(self.list, i), i, r.self)]]
                         ELSE Bail(self, NonList)
            ELSE Bail(self, TooBig)

\* insert_item never promotes an Entry.
insert_item_no_promotion(self, item, index) ==
    insert_item_bug(self, item, index, "no_promotion")
\* insert_item promotes an Entry to a sublist without its date.
insert_item_drops_date(self, item, index) ==
    insert_item_bug(self, item, index, "drops_date")
\* insert_item refuses the position behind the last child.
insert_item_no_append(self, item, index) ==
    insert_item_bug(self, item, index, "no_append")

(***************************************************************************)
(* TodoList::add_item.  The result carries the list as the call leaves it, *)
(* also when the call fails.                                               *)
(***************************************************************************)
RECURSIVE add_item(_, _, _)
add_item(self, item, index) ==
    IF Len(index) = 0
    THEN Ok([self EXCEPT !.list = Append(self.list, item)])
    ELSE LET i == Head(index)
             rest == Tail(index)
         IN IF i < Len(self.list)
            THEN LET child == self.list[i + 1]
                 IN IF child.kind = "List"
                    THEN LET r == add_item(child, item, rest)
                         IN [r EXCEPT !.self =
                                [self EXCEPT !.list = VecSet(self.list, i, r.self)]]
                    ELSE IF Len(rest) = 0
                         THEN LET new_list == from_info(child.title, child.date)
                                  r == add_item(new_list, item, rest)
                              IN [r EXCEPT !.self =
                                     [self EXCEPT !.list = VecSet(self.list, i, r.self)]]
                         ELSE Bail(self, NonList)
            ELSE Bail(self, TooBig)

(***************************************************************************)
(* TodoList::remove_item.  The path has at least one segment (clap makes   *)
(* the index argument required).                                           *)
(***************************************************************************)
RECURSIVE remove_item(_, _)
remove_item(self, index) ==
    LET i == Head(index)
        rest == Tail(index)
    IN IF Len(rest) = 0
       THEN IF i < Len(self.list)
            THEN OkItem([self EXCEPT !.list = VecRemove(self.list, i)],
                        self.list[i + 1])
            ELSE Bail(self, TooBig)
       ELSE IF i < Len(self.list)
            THEN LET child == self.list[i + 1]
                 IN IF child.kind = "List"
                    THEN LET r == remove_item(child, rest)
                             empty == Len(r.self.list) = 0
                         IN IF ~r.ok
                            THEN Bail([self EXCEPT !.list =
                                          VecSet(self.list, i, r.self)], r.err)
                            ELSE IF empty
                                 THEN OkItem(
                                        [self EXCEPT !.list =
                                            VecInsert(VecRemove(self.list, i), i,
                                                      Entry(r.self.title, r.self.date))],
                                        r.item)
                                 ELSE OkItem(
                                        [self EXCEPT !.list =
                                            VecSet(self.list, i, r.self)],
                                        r.item)
                    ELSE Bail(self, NonList)
            ELSE Bail(self, TooBig)

(***************************************************************************)
(* TodoList::insert_item, the positional insert of move and edit.          *)
(***************************************************************************)
RECURSIVE insert_item(_, _, _)
insert_item(self, item, index) ==
    LET i == Head(index)
        rest == Tail(index)
    IN IF Len(rest) = 0
       THEN IF i <= Len(self.list)
            THEN Ok([self EXCEPT !.list = VecInsert(self.list, i, item)])
            ELSE Bail(self, TooBig)
       ELSE IF i < Len(self.list)
            THEN LET child == self.list[i + 1]
                 IN IF child.kind = "List"
                    THEN LET r == insert_item(child, item, rest)
                         IN [r EXCEPT !.self =
                                [self EXCEPT !.list = VecSet(self.list, i, r.self)]]
                    ELSE IF Len(rest) = 1
                         THEN LET new_list == from_info(child.title, child.date)
                                  r == insert_item(new_list, item, rest)
                              IN [r EXCEPT !.self =
                                     [self EXCEPT !.list =
                                         VecInsert(VecRemove(self.list, i), i, r.self)]]
                         ELSE Bail(self, NonList)
            ELSE Bail(self, TooBig)

(***************************************************************************)
(* TodoList::sort: the sublists first, then a stable sort of this level by *)
(* the key (date, Option<time>); an item without a date has the key of     *)
(* Date(MAX_DATE).  The derived order of Option puts None before Some.     *)
(***************************************************************************)
MAX_DATE == 9

SortKey(item) ==
    LET date_maybe == IF item.date.kind = "None" THEN Date(MAX_DATE) ELSE item.date
    IN IF date_maybe.kind = "Date"
       THEN <<date_maybe.day, 0, 0>>
       ELSE <<date_maybe.day, 1, date_maybe.time>>

KeyLeq(a, b) ==
    \/ a[1] < b[1]
    \/ a[1] = b[1] /\ a[2] < b[2]
    \/ a[1] = b[1] /\ a[2] = b[2] /\ a[3] <= b[3]

\* An unstable variant: x goes in front of the elements whose key equals its own.
RECURSIVE StableInsert_before_equals(_, _)
StableInsert_before_equals(sorted, x) ==
    IF Len(sorted) = 0 THEN <<x>>
    ELSE IF /\ KeyLeq(SortKey(sorted[Len(sorted)]), SortKey(x))
            /\ SortKey(sorted[Len(sorted)]) # SortKey(x)
         THEN Append(sorted, x)
         ELSE Append(StableInsert_before_equals(SubSeq(sorted, 1, Len(sorted) - 1), x),
                     sorted[Len(sorted)])

\* x goes behind every element whose key is not greater than its own.
RECURSIVE StableInsert(_, _)
StableInsert(sorted, x) ==
    IF Len(sorted) = 0 THEN <<x>>
    ELSE IF KeyLeq(SortKey(sorted[Len(sorted)]), SortKey(x))
         THEN Append(sorted, x)
         ELSE Append(StableInsert(SubSeq(sorted, 1, Len(sorted) - 1), x),
                     sorted[Len(sorted)])

RECURSIVE sort_by_cached_key(_)
sort_by_cached_key(v) ==
    IF Len(v) = 0 THEN <<>>
    ELSE StableInsert(sort_by_cached_key(SubSeq(v, 1, Len(v) - 1)), v[Len(v)])

\* A variant that sorts the children of self and leaves the sublists alone.
sort_top_level_only(self) == [self EXCEPT !.list = sort_by_cached_key(self.list)]

RECURSIVE sort(_)
sort(self) ==
    LET inner == [k \in 1..Len(self.list) |->
                     IF self.list[k].kind = "List"
                     THEN sort(self.list[k]) ELSE self.list[k]]
    IN [self EXCEPT !.list = sort_by_cached_key(inner)]

(***************************************************************************)
(* to_string: the words in which a date is shown, relative to today.  A    *)
(* text is a record of its three parts.  date_string has the format that   *)
(* was used and what that format shows of the date: the weekday for %A,    *)
(* the day of the year for "%B %d", the whole date when the year is shown. *)
(* time is what "%R%P" shows, and days_till is the count that is appended. *)
(* Days are numbered from 0; DaysPerYear of them make a year, 7 a week.    *)
(***************************************************************************)
DaysPerYear == 365
NoTime == -1

Weekday(date) == date % 7
Year(date) == date \div DaysPerYear
DayOfYear(date) == date % DaysPerYear

Abs(n) == IF n < 0 THEN -n ELSE n

\* A variant that rounds the weeks down, away from zero for days in the past.
num_weeks_rounds_down(days) == days \div 7

\* Duration::num_weeks: whole weeks, rounded towards zero.
num_weeks(days) == IF days < 0 THEN -((-days) \div 7) ELSE days \div 7

Named(word) == [format |-> word, shows |-> 0]
Formatted(format, shows) == [format |-> format, shows |-> shows]
NoCount == [format |-> "", difference |-> 0, timescale |-> ""]
Count(format, difference, timescale) ==
    [format |-> format, difference |-> difference, timescale |-> timescale]

NoText == [date_string |-> Named(""), time |-> NoTime, days_till |-> NoCount]

\* A variant that counts in weeks from the seventh day on.
to_string_weeks_from_7(self, td) ==
    LET date == self.day
        time == IF self.kind = "Date" THEN NoTime ELSE self.time
        days == date - td
        weeks == num_weeks(days)
        timescale == IF 7 <= Abs(days) THEN "weeks" ELSE "days"
        difference == IF 7 <= Abs(days) THEN weeks ELSE days
        date_string ==
            IF days = -1 THEN Named("Yesterday")
            ELSE IF days = 0 THEN Named("Today")
            ELSE IF days = 1 THEN Named("Tomorrow")
            ELSE IF days \in 1..7 THEN Formatted("upcoming %A", Weekday(date))
            ELSE IF days \in -7..-1 THEN Formatted("recent %A", Weekday(date))
            ELSE IF Year(date) = Year(td) THEN Formatted("%B %d", DayOfYear(date))
            ELSE Formatted("%B %d %Y", date)
        days_till ==
            IF days \in {-1, 0, 1} THEN NoCount
            ELSE IF days < 0 THEN Count("; {} {} ago", Abs(difference), timescale)
            ELSE Count("; in {} {}", difference, timescale)
    IN [date_string |-> date_string, time |-> time, days_till |-> days_till]

to_string(self, td) ==
    LET date == self.day
        time == IF self.kind = "Date" THEN NoTime ELSE self.time
        days == date - td
        weeks == num_weeks(days)
        timescale == IF 14 <= Abs(days) THEN "weeks" ELSE "days"
        difference == IF 14 <= Abs(days) THEN weeks ELSE days
        date_string ==
            IF days = -1 THEN Named("Yesterday")
            ELSE IF days = 0 THEN Named("Today")
            ELSE IF days = 1 THEN Named("Tomorrow")
            ELSE IF days \in 1..7 THEN Formatted("upcoming %A", Weekday(date))
            ELSE IF days \in -7..-1 THEN Formatted("recent %A", Weekday(date))
            ELSE IF Year(date) = Year(td) THEN Formatted("%B %d", DayOfYear(date))
            ELSE Formatted("%B %d %Y", date)
        days_till ==
            IF days \in {-1, 0, 1} THEN NoCount
            ELSE IF days < 0 THEN Count("; {} {} ago", Abs(difference), timescale)
            ELSE Count("; in {} {}", difference, timescale)
    IN [date_string |-> date_string, time |-> time, days_till |-> days_till]

(***************************************************************************)
(* write_to: the output is the sequence of the pieces that are written.    *)
(* A piece is padding (n times three blanks), a marker ("n)" of an entry,  *)
(* "n--->" of a sublist, each with the blank behind it), a title, a date   *)
(* in brackets as to_string words it, or a newline.  The colours in which  *)
(* markers and dates are painted are left out of the pieces.               *)
(***************************************************************************)
Piece(what, title, n, text) == [what |-> what, title |-> title, n |-> n, text |-> text]
Padding(n) == Piece("padding", "", n, NoText)
Marker(kind, i) == Piece(IF kind = "Entry" THEN "{})" ELSE "{}--->", "", i, NoText)
Title(title) == Piece("title", title, 0, NoText)
Newline == Piece("newline", "", 0, NoText)

\* The date of an item, in brackets; nothing for an item without a date.
date_string(self, td) ==
    IF self.date.kind = "None" THEN <<>>
    ELSE <<Piece("({})", "", 0, to_string(self.date, td))>>

\* A variant that ends the line of every child, the last one of a sublist too.
RECURSIVE write_to_newline_after_every_child(_, _, _)
write_to_newline_after_every_child(self, indent, td) ==
    IF self.kind = "Entry"
    THEN <<Title(self.title)>> \o date_string(self, td)
    ELSE LET RECURSIVE children(_)
             children(k) ==
                 IF k = 0 THEN <<>>
                 ELSE children(k - 1)
                        \o <<Padding(indent), Marker(self.list[k].kind, k - 1)>>
                        \o write_to_newline_after_every_child(self.list[k], indent + 1, td)
                        \o <<Newline>>
         IN <<Padding(IF indent = 0 THEN 1 ELSE 0), Title(self.title)>>
                \o date_string(self, td) \o <<Newline>>
                \o children(Len(self.list))

\* TodoEntry::write_to for an Entry, TodoList::write_to for a List; the
\* children are numbered from 0 in the source and from 1 here.
RECURSIVE write_to(_, _, _)
write_to(self, indent, td) ==
    IF self.kind = "Entry"
    THEN <<Title(self.title)>> \o date_string(self, td)
    ELSE LET RECURSIVE children(_)
             children(k) ==
                 IF k = 0 THEN <<>>
                 ELSE children(k - 1)
                        \o <<Padding(indent), Marker(self.list[k].kind, k - 1)>>
                        \o write_to(self.list[k], indent + 1, td)
                        \o (IF k - 1 # Len(self.list) - 1 \/ indent = 0
                            THEN <<Newline>> ELSE <<>>)
         IN <<Padding(IF indent = 0 THEN 1 ELSE 0), Title(self.title)>>
                \o date_string(self, td) \o <<Newline>>
                \o children(Len(self.list))

\* The number of items below a list; NodeCount of a mapping sums its lists.
RECURSIVE Size(_)
Size(self) ==
    LET RECURSIVE Sum(_)
        Sum(k) == IF k = 0 THEN 0 ELSE 1 + Size(self.list[k]) + Sum(k - 1)
    IN Sum(Len(self.list))

(***************************************************************************)
(* What a run reads from its user: the list-name selector, index paths,    *)
(* the name argument of add, the answers of prompt_for_info and the        *)
(* answers to the confirmation prompts.                                    *)
(***************************************************************************)
\* The name argument of add.
Names == {"b"}
Confirms == {"y", "Y", "", "n"}

NoListName == "<none>"
NoName == "<none>"
ListNameArgs == {NoListName, "work"}
\* The list titles given to list --add, list --remove and list --edit.
ListTitles == {DEFAULT_LIST, "work", "a"}

AlreadyExists == "The list already exists"
NotExists == "The list does not currently exist"
CannotRemoveDefault == "You cannot remove the default to-do list!"
EditReverted == "Weird, the list already exists. Edit reverted."

\* prompt_for_info: a title and an optional date, or the error of readline.
\* Two answers stand for all: one with a date, one without.
NoPrompt == [ok |-> TRUE, title |-> "", date |-> NoDate]
PromptFailed == [ok |-> FALSE, title |-> "", date |-> NoDate]
PromptResults ==
    {[ok |-> TRUE, title |-> "a", date |-> Date(1)],
     [ok |-> TRUE, title |-> "b", date |-> NoDate],
     PromptFailed}

\* The comparison of the answer keeps the case.
to_lowercase_keeps_case(s) == s

to_lowercase(s) == IF s = "Y" THEN "y" ELSE s

(***************************************************************************)
(* The index paths a run is given: every path into the list, and the paths *)
(* that leave it: at a sublist of n children the positions n and n + 1,    *)
(* below an entry the positions 0 and 1, and one segment more below the    *)
(* first missing child.                                                    *)
(***************************************************************************)
MaxPathLen == MaxNodes

RECURSIVE PathsFrom(_, _, _)
PathsFrom(self, exists, depth) ==
    IF depth = 0 THEN {<<>>}
    ELSE LET n == Len(self.list)
             last == IF exists THEN n + 1 ELSE 0
         IN {<<>>} \cup UNION {
                {<<i>> \o q : q \in
                    PathsFrom(IF i < n THEN self.list[i + 1] ELSE NoItem,
                              i < n,
                              IF exists /\ i <= n THEN depth - 1 ELSE 0)}
                : i \in 0..last }

Paths(self) == PathsFrom(self, TRUE, MaxPathLen)
IndexPaths(self) == Paths(self) \ {<<>>}

(***************************************************************************)
(* The state.  disk is the persisted document: the empty file before the   *)
(* first run, a mapping from list names to lists afterwards.  The other    *)
(* variables describe the last run as it ended: its arguments (cmd), the   *)
(* mapping as loaded (pre), the mapping in memory when the run ended       *)
(* (lists), the active list as remove_item left it (mid), the item that    *)
(* remove_item returned (item), whether save was called after the          *)
(* subcommand's mutation (saved) and the run's result (status: "ok" or the *)
(* error message).  loaded is the document as the run found it, or as it   *)
(* generated it when it found the file empty.  pc is "ready" while no run  *)
(* is under way and "done" when a run has reached the end of main, its     *)
(* memory not yet given up.                                                *)
(***************************************************************************)
VARIABLES pc, disk, loaded, lists, pre, cmd, mid, item, saved, status,
          today, shown, out

vars == <<pc, disk, loaded, lists, pre, cmd, mid, item, saved, status,
          today, shown, out>>

\* The subcommands of list return before the active list is written.
ListOps == {"list", "list-add", "list-remove", "list-edit"}

\* What a run writes at its end: the active list, when the run has not
\* failed and was not a list subcommand.
Written(name, args, m, result) ==
    IF result = "ok" /\ args.op \notin ListOps
    THEN write_to(m[name], 0, today) ELSE <<>>

\* Nothing has been described: no date, no text.
NoShown == [date |-> NoDate, text |-> NoText]

EmptyFile == [empty |-> TRUE, lists |-> <<>>]

\* save leaves out the lists that have no items.
save_skips_empty_lists(m) ==
    [empty |-> FALSE,
     lists |-> [n \in {x \in DOMAIN m : Len(m[x].list) > 0} |-> m[n]]]

\* save: the whole mapping is written.
save(m) == [empty |-> FALSE, lists |-> m]

NodeCount(m) ==
    LET RECURSIVE Sum(_)
        Sum(names) ==
            IF names = {} THEN 0
            ELSE LET n == CHOOSE x \in names : TRUE
                 IN Size(m[n]) + Sum(names \ {n})
    IN Sum(DOMAIN m)

\* What the bound counts: the items of all lists, and the lists but one.
Weight(m) == NodeCount(m) + Cardinality(DOMAIN m) - 1

NoArgs ==
    [op |-> "", list_name |-> NoListName, index |-> <<>>, to |-> <<>>,
     name |-> NoName, info |-> NoPrompt, confirm |-> ""]

(***************************************************************************)
(* main, up to the subcommand: the document is read; an empty one is       *)
(* replaced by the generated default list, which is saved at once; without *)
(* a list-name argument the default list is made sure of in memory.        *)
(***************************************************************************)
Load(list_name) ==
    LET m0 == IF disk.empty THEN (DEFAULT_LIST :> default) ELSE disk.lists
        d0 == IF disk.empty THEN save(m0) ELSE disk
        m1 == IF list_name = NoListName /\ DEFAULT_LIST \notin DOMAIN m0
              THEN (DEFAULT_LIST :> default) @@ m0
              ELSE m0
        name == IF list_name = NoListName THEN DEFAULT_LIST ELSE list_name
    IN [lists |-> m1, disk |-> d0, name |-> name, found |-> name \in DOMAIN m1]

Init ==
    /\ pc = "ready"
    /\ disk = EmptyFile
    /\ loaded = EmptyFile
    /\ lists = <<>>
    /\ pre = <<>>
    /\ cmd = NoArgs
    /\ mid = NoItem
    /\ item = NoItem
    /\ saved = FALSE
    /\ status = "ok"
    /\ today = Now.day
    /\ shown = NoShown
    /\ out = <<>>

\* The document is written whenever a run ends, also when it fails.
Exit_always_saves(L, args, m, doSave, result) ==
    /\ pc = "ready"
    /\ pc' = "done"
    /\ cmd' = args
    /\ loaded' = L.disk
    /\ pre' = L.lists
    /\ lists' = m
    /\ saved' = doSave
    /\ disk' = save(m)
    /\ status' = result
    /\ out' = Written(L.name, args, m, result)
    /\ UNCHANGED <<today, shown>>

\* How a run ends: with the mapping m in memory, saved or not.
Exit(L, args, m, doSave, result) ==
    /\ pc = "ready"
    /\ pc' = "done"
    /\ cmd' = args
    /\ loaded' = L.disk
    /\ pre' = L.lists
    /\ lists' = m
    /\ saved' = doSave
    /\ disk' = IF doSave THEN save(m) ELSE L.disk
    /\ status' = result
    /\ out' = Written(L.name, args, m, result)
    /\ UNCHANGED <<today, shown>>

WithList(m, name, self) == [m EXCEPT ![name] = self]

\* bail!("List '{}' not found!"): the subcommand is never looked at.
ListNotFound ==
    /\ pc = "ready"
    /\ \E list_name \in ListNameArgs :
        LET L == Load(list_name)
        IN /\ ~L.found
           /\ Exit(L, [NoArgs EXCEPT !.list_name = list_name], L.lists, FALSE,
                   "List not found!")
           /\ mid' = NoItem
           /\ item' = NoItem

\* No subcommand: the active list is printed.
ShowCmd ==
    /\ pc = "ready"
    /\ \E list_name \in ListNameArgs :
        LET L == Load(list_name)
        IN /\ L.found
           /\ Weight(L.lists) <= MaxNodes
           /\ Exit(L, [NoArgs EXCEPT !.op = "show", !.list_name = list_name],
                   L.lists, FALSE, "ok")
           /\ mid' = NoItem
           /\ item' = NoItem

(***************************************************************************)
(* add: the title comes from the name argument (then there is no date) or  *)
(* from prompt_for_info; the new entry goes through add_item.              *)
(***************************************************************************)
AddInputs ==
    {[name |-> t, info |-> NoPrompt] : t \in Names}
        \cup {[name |-> NoName, info |-> i] : i \in PromptResults}

AddCmd ==
    /\ pc = "ready"
    /\ \E list_name \in ListNameArgs, in \in AddInputs :
        LET L == Load(list_name)
        IN /\ L.found
           /\ Weight(L.lists) <= MaxNodes
           /\ Weight(L.lists) < MaxNodes
           /\ \E index \in Paths(L.lists[L.name]) :
                LET args == [NoArgs EXCEPT !.op = "add", !.list_name = list_name,
                                           !.index = index, !.name = in.name,
                                           !.info = in.info]
                    title == IF in.name # NoName THEN in.name ELSE in.info.title
                    date == IF in.name # NoName THEN NoDate ELSE in.info.date
                    r == add_item(L.lists[L.name], Entry(title, date), index)
                IN /\ mid' = NoItem
                   /\ item' = NoItem
                   /\ IF ~in.info.ok
                      THEN Exit(L, args, L.lists, FALSE, Interrupted)
                      ELSE Exit(L, args, WithList(L.lists, L.name, r.self),
                                r.ok, IF r.ok THEN "ok" ELSE r.err)

(***************************************************************************)
(* remove: remove_item first, the confirmation afterwards; the document is *)
(* saved when the answer counts as yes.                                    *)
(***************************************************************************)
RemoveCmd ==
    /\ pc = "ready"
    /\ \E list_name \in ListNameArgs :
        LET L == Load(list_name)
        IN /\ L.found
           /\ Weight(L.lists) <= MaxNodes
           /\ \E index \in IndexPaths(L.lists[L.name]) :
                LET r == remove_item(L.lists[L.name], index)
                    m == WithList(L.lists, L.name, r.self)
                IN /\ mid' = r.self
                   /\ item' = r.item
                   /\ \E confirm \in (IF r.ok THEN Confirms ELSE {""}) :
                        LET args == [NoArgs EXCEPT !.op = "remove",
                                                   !.list_name = list_name,
                                                   !.index = index,
                                                   !.confirm = confirm]
                            yes == IF r.item.kind = "List"
                                   THEN to_lowercase(confirm) = "y"
                                   ELSE to_lowercase(confirm) = "y" \/ confirm = ""
                        IN IF ~r.ok THEN Exit(L, args, m, FALSE, r.err)
                           ELSE IF yes THEN Exit(L, args, m, TRUE, "ok")
                           ELSE Exit(L, args, m, FALSE, Cancelled)

(***************************************************************************)
(* move: remove_item(from), then insert_item(item, to) on the list as the  *)
(* removal left it, then save.  move_items is the two calls: mid and item  *)
(* are what remove_item left and returned, removed tells whether it        *)
(* succeeded, self is the list when the second call has returned.          *)
(***************************************************************************)
\* move resolves the to path on the list as loaded: the item is inserted
\* first and its old place removed afterwards.
move_items_insert_first(self, from_index, to_index) ==
    LET r == remove_item(self, from_index)
        s == insert_item(self, r.item, to_index)
        t == remove_item(s.self, from_index)
    IN IF ~r.ok
       THEN [ok |-> FALSE, err |-> r.err, self |-> r.self, mid |-> r.self,
             item |-> NoItem, removed |-> FALSE]
       ELSE [ok |-> s.ok, err |-> s.err, self |-> IF s.ok THEN t.self ELSE r.self,
             mid |-> r.self, item |-> r.item, removed |-> TRUE]

\* move puts the item back where it was when insert_item fails.
move_items_rollback(self, from_index, to_index) ==
    LET r == remove_item(self, from_index)
        s == insert_item(r.self, r.item, to_index)
    IN IF ~r.ok
       THEN [ok |-> FALSE, err |-> r.err, self |-> r.self, mid |-> r.self,
             item |-> NoItem, removed |-> FALSE]
       ELSE [ok |-> s.ok, err |-> s.err,
             self |-> IF s.ok THEN s.self
                      ELSE insert_item(r.self, r.item, from_index).self,
             mid |-> r.self, item |-> r.item, removed |-> TRUE]

move_items(self, from_index, to_index) ==
    LET r == remove_item(self, from_index)
        s == insert_item(r.self, r.item, to_index)
    IN IF ~r.ok
       THEN [ok |-> FALSE, err |-> r.err, self |-> r.self, mid |-> r.self,
             item |-> NoItem, removed |-> FALSE]
       ELSE [ok |-> s.ok, err |-> s.err, self |-> s.self, mid |-> r.self,
             item |-> r.item, removed |-> TRUE]

MoveCmd ==
    /\ pc = "ready"
    /\ \E list_name \in ListNameArgs :
        LET L == Load(list_name)
        IN /\ L.found
           /\ Weight(L.lists) <= MaxNodes
           /\ \E from_index \in IndexPaths(L.lists[L.name]) :
                \E to_index \in
                     (IF remove_item(L.lists[L.name], from_index).ok
                      THEN IndexPaths(remove_item(L.lists[L.name], from_index).self)
                               \cup {from_index}
                      ELSE {<<0>>}) :
                    LET args == [NoArgs EXCEPT !.op = "move",
                                               !.list_name = list_name,
                                               !.index = from_index,
                                               !.to = to_index]
                        r == move_items(L.lists[L.name], from_index, to_index)
                    IN /\ mid' = r.mid
                       /\ item' = r.item
                       /\ Exit(L, args, WithList(L.lists, L.name, r.self),
                               r.ok, IF r.ok THEN "ok" ELSE r.err)

(***************************************************************************)
(* edit: remove_item(index), prompt_for_info with the removed item, then   *)
(* insert_item of the item with its new title and date at the same index.  *)
(***************************************************************************)
EditCmd ==
    /\ pc = "ready"
    /\ \E list_name \in ListNameArgs :
        LET L == Load(list_name)
        IN /\ L.found
           /\ Weight(L.lists) <= MaxNodes
           /\ \E index \in IndexPaths(L.lists[L.name]) :
                LET r == remove_item(L.lists[L.name], index)
                IN /\ mid' = r.self
                   /\ item' = r.item
                   /\ \E info \in (IF r.ok THEN PromptResults ELSE {NoPrompt}) :
                        LET args == [NoArgs EXCEPT !.op = "edit",
                                                   !.list_name = list_name,
                                                   !.index = index,
                                                   !.info = info]
                            edited == [r.item EXCEPT !.title = info.title,
                                                     !.date = info.date]
                            s == insert_item(r.self, edited, index)
                        IN IF ~r.ok
                           THEN Exit(L, args, WithList(L.lists, L.name, r.self),
                                     FALSE, r.err)
                           ELSE IF ~info.ok
                           THEN Exit(L, args, WithList(L.lists, L.name, r.self),
                                     FALSE, Interrupted)
                           ELSE Exit(L, args, WithList(L.lists, L.name, s.self),
                                     s.ok, IF s.ok THEN "ok" ELSE s.err)

\* sort: the active list is sorted and saved.
SortCmd ==
    /\ pc = "ready"
    /\ \E list_name \in ListNameArgs :
        LET L == Load(list_name)
        IN /\ L.found
           /\ Weight(L.lists) <= MaxNodes
           /\ Exit(L, [NoArgs EXCEPT !.op = "sort", !.list_name = list_name],
                   WithList(L.lists, L.name, sort(L.lists[L.name])), TRUE, "ok")
           /\ mid' = NoItem
           /\ item' = NoItem

(***************************************************************************)
(* list: --add makes a new empty list under its title, --remove deletes a  *)
(* list after a confirmation, --edit gives a list a new title and date;    *)
(* without any of them the lists are only printed.                         *)
(***************************************************************************)
ListShowCmd ==
    /\ pc = "ready"
    /\ \E list_name \in ListNameArgs :
        LET L == Load(list_name)
        IN /\ L.found
           /\ Weight(L.lists) <= MaxNodes
           /\ Exit(L, [NoArgs EXCEPT !.op = "list", !.list_name = list_name],
                   L.lists, FALSE, "ok")
           /\ mid' = NoItem
           /\ item' = NoItem

ListAddInputs ==
    {[name |-> "work", info |-> NoPrompt]}
        \cup {[name |-> NoName, info |-> i] : i \in PromptResults}

ListAddCmd ==
    /\ pc = "ready"
    /\ \E list_name \in ListNameArgs, in \in ListAddInputs :
        LET L == Load(list_name)
            args == [NoArgs EXCEPT !.op = "list-add", !.list_name = list_name,
                                   !.name = in.name, !.info = in.info]
            title == IF in.name # NoName THEN in.name ELSE in.info.title
            date == IF in.name # NoName THEN NoDate ELSE in.info.date
        IN /\ L.found
           /\ Weight(L.lists) <= MaxNodes
           /\ Weight(L.lists) < MaxNodes
           /\ mid' = NoItem
           /\ item' = NoItem
           /\ IF ~in.info.ok
              THEN Exit(L, args, L.lists, FALSE, Interrupted)
              ELSE IF title \in DOMAIN L.lists
              THEN Exit(L, args, L.lists, FALSE, AlreadyExists)
              ELSE Exit(L, args, (title :> from_info(title, date)) @@ L.lists,
                        TRUE, "ok")

\* The mapping without the list under `title`.
MapRemove(m, title) == [n \in DOMAIN m \ {title} |-> m[n]]

\* list --remove with a slip: "no_guard" lets the default list be removed,
\* "removes_first" takes the list out of the mapping before it asks.
ListRemoveBug(bug) ==
    /\ pc = "ready"
    /\ \E list_name \in ListNameArgs, title \in ListTitles :
        LET L == Load(list_name)
            guarded == bug # "no_guard" /\ title = DEFAULT_LIST
            valid == ~guarded /\ title \in DOMAIN L.lists
        IN /\ L.found
           /\ Weight(L.lists) <= MaxNodes
           /\ mid' = NoItem
           /\ item' = NoItem
           /\ \E confirm \in (IF valid THEN Confirms ELSE {""}) :
                LET args == [NoArgs EXCEPT !.op = "list-remove",
                                           !.list_name = list_name,
                                           !.name = title, !.confirm = confirm]
                IN IF guarded
                   THEN Exit(L, args, L.lists, FALSE, CannotRemoveDefault)
                   ELSE IF title \notin DOMAIN L.lists
                   THEN Exit(L, args, L.lists, FALSE, NotExists)
                   ELSE IF to_lowercase(confirm) = "y"
                   THEN Exit(L, args, MapRemove(L.lists, title), TRUE, "ok")
                   ELSE Exit(L, args,
                             IF bug = "removes_first"
                             THEN MapRemove(L.lists, title) ELSE L.lists,
                             FALSE, Cancelled)

ListRemoveCmd_no_guard == ListRemoveBug("no_guard")
ListRemoveCmd_removes_first == ListRemoveBug("removes_first")

ListRemoveCmd ==
    /\ pc = "ready"
    /\ \E list_name \in ListNameArgs, title \in ListTitles :
        LET L == Load(list_name)
            valid == title # DEFAULT_LIST /\ title \in DOMAIN L.lists
        IN /\ L.found
           /\ Weight(L.lists) <= MaxNodes
           /\ mid' = NoItem
           /\ item' = NoItem
           /\ \E confirm \in (IF valid THEN Confirms ELSE {""}) :
                LET args == [NoArgs EXCEPT !.op = "list-remove",
                                           !.list_name = list_name,
                                           !.name = title, !.confirm = confirm]
                IN IF title = DEFAULT_LIST
                   THEN Exit(L, args, L.lists, FALSE, CannotRemoveDefault)
                   ELSE IF title \notin DOMAIN L.lists
                   THEN Exit(L, args, L.lists, FALSE, NotExists)
                   ELSE IF to_lowercase(confirm) = "y"
                   THEN Exit(L, args, MapRemove(L.lists, title), TRUE, "ok")
                   ELSE Exit(L, args, L.lists, FALSE, Cancelled)

\* list --edit with a slip: the list goes under its new name with its old title.
ListEditCmd_keeps_title ==
    /\ pc = "ready"
    /\ \E list_name \in ListNameArgs, title \in ListTitles :
        LET L == Load(list_name)
            exists == title \in DOMAIN L.lists
        IN /\ L.found
           /\ Weight(L.lists) <= MaxNodes
           /\ mid' = NoItem
           /\ item' = NoItem
           /\ \E info \in (IF exists THEN PromptResults ELSE {NoPrompt}) :
                LET args == [NoArgs EXCEPT !.op = "list-edit",
                                           !.list_name = list_name,
                                           !.name = title, !.info = info]
                    removed == MapRemove(L.lists, title)
                    l == [L.lists[title] EXCEPT !.date = info.date]
                IN IF ~exists
                   THEN Exit(L, args, L.lists, FALSE, NotExists)
                   ELSE IF ~info.ok
                   THEN Exit(L, args, removed, FALSE, Interrupted)
                   ELSE IF info.title \in DOMAIN removed
                   THEN Exit(L, args, removed, FALSE, EditReverted)
                   ELSE Exit(L, args, (info.title :> l) @@ removed, TRUE, "ok")

ListEditCmd ==
    /\ pc = "ready"
    /\ \E list_name \in ListNameArgs, title \in ListTitles :
        LET L == Load(list_name)
            exists == title \in DOMAIN L.lists
        IN /\ L.found
           /\ Weight(L.lists) <= MaxNodes
           /\ mid' = NoItem
           /\ item' = NoItem
           /\ \E info \in (IF exists THEN PromptResults ELSE {NoPrompt}) :
                LET args == [NoArgs EXCEPT !.op = "list-edit",
                                           !.list_name = list_name,
                                           !.name = title, !.info = info]
                    removed == MapRemove(L.lists, title)
                    l == [L.lists[title] EXCEPT !.title = info.title,
                                                !.date = info.date]
                IN IF ~exists
                   THEN Exit(L, args, L.lists, FALSE, NotExists)
                   ELSE IF ~info.ok
                   THEN Exit(L, args, removed, FALSE, Interrupted)
                   ELSE IF info.title \in DOMAIN removed
                   THEN Exit(L, args, removed, FALSE, EditReverted)
                   ELSE Exit(L, args, (info.title :> l) @@ removed, TRUE, "ok")

\* The process ends: what it held in memory is gone, the document stays.
Terminate ==
    /\ pc = "done"
    /\ pc' = "ready"
    /\ loaded' = EmptyFile
    /\ lists' = <<>>
    /\ pre' = <<>>
    /\ cmd' = NoArgs
    /\ mid' = NoItem
    /\ item' = NoItem
    /\ saved' = FALSE
    /\ status' = "ok"
    /\ shown' = NoShown
    /\ out' = <<>>
    /\ UNCHANGED <<disk, today>>

Next ==
    \/ Terminate
    \/ ListNotFound
    \/ ShowCmd
    \/ AddCmd
    \/ RemoveCmd
    \/ MoveCmd
    \/ EditCmd
    \/ SortCmd
    \/ ListShowCmd
    \/ ListAddCmd
    \/ ListRemoveCmd
    \/ ListEditCmd

Spec == Init /\ [][Next]_vars

(***************************************************************************)
(* sort over stored documents with every kind of date: none, date only,    *)
(* date and time, on an ordinary day and on MAX_DATE.  The default list    *)
(* holds any tree of up to MaxNodes items, no sublist empty; the items are *)
(* titled by their place in the document, so that each can be followed.    *)
(***************************************************************************)
SortDates ==
    {NoDate, Date(1), DateTime(1, 1), Date(2), Date(MAX_DATE), DateTime(MAX_DATE, 1)}

Label == <<"a", "b", "c", "d", "e", "f">>

\* Forests(n, first): the sequences of items with n nodes in all, titled
\* Label[first], Label[first + 1], ... in the order of the document.
RECURSIVE Forests(_, _), Items(_, _)
Forests(n, first) ==
    IF n = 0 THEN {<<>>}
    ELSE UNION {{<<head>> \o rest : head \in Items(k, first),
                                    rest \in Forests(n - k, first + k)} : k \in 1..n}

Items(k, first) ==
    IF k = 1 THEN {Entry(Label[first], d) : d \in SortDates}
    ELSE {[from_info(Label[first], d) EXCEPT !.list = f] :
              d \in SortDates, f \in Forests(k - 1, first + 1)}

SortInit ==
    /\ pc = "ready"
    /\ \E n \in 0..MaxNodes : \E f \in Forests(n, 1) :
           disk = save(DEFAULT_LIST :> [from_info(DEFAULT_LIST, NoDate) EXCEPT !.list = f])
    /\ loaded = EmptyFile
    /\ lists = <<>>
    /\ pre = <<>>
    /\ cmd = NoArgs
    /\ mid = NoItem
    /\ item = NoItem
    /\ saved = FALSE
    /\ status = "ok"
    /\ today = Now.day
    /\ shown = NoShown
    /\ out = <<>>

SortNext ==
    \/ SortCmd
    \/ Terminate

SpecSort == SortInit /\ [][SortNext]_vars

(***************************************************************************)
(* to_string over the days around today, up to MaxOffset days before and   *)
(* after, today being one of the days around the turn of a year.           *)
(***************************************************************************)
MaxOffset == 22

Todays == (DaysPerYear - 3)..(DaysPerYear + 3)

DescribeDates(td) ==
    {Date(td + d) : d \in -MaxOffset..MaxOffset}
        \cup {DateTime(td + d, 1) : d \in -MaxOffset..MaxOffset}

DescribeInit ==
    /\ pc = "ready"
    /\ today \in Todays
    /\ shown = NoShown
    /\ out = <<>>
    /\ disk = EmptyFile
    /\ loaded = EmptyFile
    /\ lists = <<>>
    /\ pre = <<>>
    /\ cmd = NoArgs
    /\ mid = NoItem
    /\ item = NoItem
    /\ saved = FALSE
    /\ status = "ok"

\* write_to shows the date of an item.
Describe ==
    /\ pc = "ready"
    /\ pc' = "done"
    /\ \E date \in DescribeDates(today) :
           shown' = [date |-> date, text |-> to_string(date, today)]
    /\ UNCHANGED <<disk, loaded, lists, pre, cmd, mid, item, saved, status, today, out>>

DescribeNext ==
    \/ Describe
    \/ Terminate

SpecDescribe == DescribeInit /\ [][DescribeNext]_vars

(***************************************************************************)
(* Properties.  They are stated over paths: Valid, NodeAt and ReplaceAt    *)
(* address a node by its path from the root, without the traversal of the  *)
(* operations above.                                                       *)
(***************************************************************************)
Front(p) == SubSeq(p, 1, Len(p) - 1)
Last(p) == p[Len(p)]

RECURSIVE Valid(_, _)
Valid(self, p) ==
    \/ Len(p) = 0
    \/ /\ Head(p) < Len(self.list)
       /\ Valid(self.list[Head(p) + 1], Tail(p))

RECURSIVE NodeAt(_, _)
NodeAt(self, p) ==
    IF Len(p) = 0 THEN self ELSE NodeAt(self.list[Head(p) + 1], Tail(p))

RECURSIVE ReplaceAt(_, _, _)
ReplaceAt(self, p, x) ==
    IF Len(p) = 0 THEN x
    ELSE [self EXCEPT !.list[Head(p) + 1] = ReplaceAt(@, Tail(p), x)]

\* The list the last run worked on, as loaded and as the run left it.
ActiveName == IF cmd.list_name = NoListName THEN DEFAULT_LIST ELSE cmd.list_name
Before == pre[ActiveName]
After == lists[ActiveName]

\* The last run called remove_item and the call returned an item.
Removed == cmd.op \in {"remove", "move", "edit"} /\ item.kind # "None"

\* The last run called insert_item: with which item, at which path.
Inserted ==
    \/ cmd.op = "move" /\ item.kind # "None"
    \/ cmd.op = "edit" /\ item.kind # "None" /\ cmd.info.ok
InsertedItem ==
    IF cmd.op = "move" THEN item
    ELSE [item EXCEPT !.title = cmd.info.title, !.date = cmd.info.date]
InsertPath == IF cmd.op = "move" THEN cmd.to ELSE cmd.index

RECURSIVE NoEmptySublist(_)
NoEmptySublist(self) ==
    \A k \in 1..Len(self.list) :
        /\ self.list[k].kind = "List" => Len(self.list[k].list) > 0
        /\ NoEmptySublist(self.list[k])

\* C1: no sublist below a root has empty children, neither in the persisted
\* document nor in the mapping in memory whenever it is saved.
C1_NoEmptySublistPersisted ==
    /\ \A n \in DOMAIN disk.lists : NoEmptySublist(disk.lists[n])
    /\ saved => \A n \in DOMAIN lists : NoEmptySublist(lists[n])

\* A saved remove that took the only child of a sublist.
C1_Witness ==
    /\ cmd.op = "remove" /\ saved
    /\ Len(cmd.index) >= 2
    /\ Len(NodeAt(Before, Front(cmd.index)).list) = 1
    /\ disk.lists = lists

\* C2: remove_item at a valid path of two or more segments whose parent has
\* one child returns that child and leaves, where the parent was, an Entry
\* with the parent's title and date.
C2_SoleChildRemovalDemotes ==
    (/\ cmd.op \in {"remove", "move", "edit"}
     /\ Len(cmd.index) >= 2
     /\ Valid(Before, cmd.index)
     /\ Len(NodeAt(Before, Front(cmd.index)).list) = 1)
    => LET parent == NodeAt(Before, Front(cmd.index))
       IN /\ item = NodeAt(Before, cmd.index)
          /\ mid = ReplaceAt(Before, Front(cmd.index),
                             [kind |-> "Entry", title |-> parent.title,
                              date |-> parent.date, list |-> <<>>])

\* The sole child of the sublist at [1] is removed; the sublist has a date.
C2_Witness ==
    /\ cmd.op = "remove" /\ cmd.index = <<1, 0>> /\ status = "ok"
    /\ Len(Before.list) = 2
    /\ Before.list[2].kind = "List" /\ Len(Before.list[2].list) = 1
    /\ Before.list[2].date # NoDate
    /\ mid.list[2].kind = "Entry"

\* The number of sublists below a list.
RECURSIVE ListCount(_)
ListCount(self) ==
    LET RECURSIVE Sum(_)
        Sum(k) == IF k = 0 THEN 0
                  ELSE (IF self.list[k].kind = "List" THEN 1 ELSE 0)
                           + ListCount(self.list[k]) + Sum(k - 1)
    IN Sum(Len(self.list))

ItemListCount(x) == (IF x.kind = "List" THEN 1 ELSE 0) + ListCount(x)

\* C3: a successful remove_item leaves every ancestor above the direct
\* parent a sublist, leaves the direct parent a sublist when it keeps a
\* child, and turns at most one sublist into an entry: the direct parent,
\* and only when the removed item was its only child.
C3_DemotionOnlyOfEmptiedParent ==
    Removed =>
        LET parentPath == Front(cmd.index)
            soleChild == /\ Len(cmd.index) >= 2
                         /\ Len(NodeAt(Before, parentPath).list) = 1
        IN /\ \A k \in 0..(Len(parentPath) - 1) :
                 NodeAt(mid, SubSeq(parentPath, 1, k)).kind = "List"
           /\ ~soleChild =>
                 /\ NodeAt(mid, parentPath).kind = "List"
                 /\ ListCount(mid) = ListCount(Before) - ItemListCount(item)
           /\ soleChild =>
                 /\ NodeAt(mid, parentPath).kind = "Entry"
                 /\ ListCount(mid) = ListCount(Before) - ItemListCount(item) - 1

\* An item is removed three levels down: its parent is demoted, the
\* grandparent is not.
C3_Witness ==
    /\ Removed /\ Len(cmd.index) = 3
    /\ NodeAt(mid, Front(cmd.index)).kind = "Entry"
    /\ NodeAt(mid, <<cmd.index[1]>>).kind = "List"

\* C4: remove_item(p) followed by insert_item of the removed item at the
\* same p succeeds and gives back the list as it was: a move from p to p,
\* and an edit at p that keeps the title and the date.
C4_RemoveInsertRoundTrip ==
    /\ (cmd.op = "move" /\ item.kind # "None" /\ cmd.to = cmd.index)
           => status = "ok" /\ After = Before
    /\ (/\ cmd.op = "edit" /\ item.kind # "None" /\ cmd.info.ok
        /\ cmd.info.title = item.title /\ cmd.info.date = item.date)
           => status = "ok" /\ After = Before

\* A move from p to p whose removal demoted the parent of p.
C4_Witness ==
    /\ cmd.op = "move" /\ cmd.to = cmd.index /\ status = "ok"
    /\ Len(cmd.index) >= 2
    /\ NodeAt(mid, Front(cmd.index)).kind = "Entry"
    /\ NodeAt(After, Front(cmd.index)).kind = "List"

\* C5: insert_item at a path whose second-to-last segment addresses an
\* Entry and whose last segment is 0 succeeds and puts, where the Entry was,
\* a sublist with the Entry's title and date and the item as its only child.
C5_InsertBelowEntryPromotes ==
    (/\ Inserted
     /\ Len(InsertPath) >= 2
     /\ Valid(mid, Front(InsertPath))
     /\ NodeAt(mid, Front(InsertPath)).kind = "Entry"
     /\ Last(InsertPath) = 0)
    => LET entry == NodeAt(mid, Front(InsertPath))
       IN /\ status = "ok"
          /\ After = ReplaceAt(mid, Front(InsertPath),
                               [kind |-> "List", title |-> entry.title,
                                date |-> entry.date,
                                list |-> <<InsertedItem>>])

\* The entry at [0], which has a date, receives an item at [0, 0].
C5_Witness ==
    /\ cmd.op = "move" /\ cmd.to = <<0, 0>> /\ item.kind # "None"
    /\ Len(mid.list) >= 1
    /\ mid.list[1].kind = "Entry" /\ mid.list[1].date # NoDate
    /\ After.list[1].kind = "List" /\ After.list[1].list = <<item>>

\* C6: insert_item with the last segment i into a level of n children
\* succeeds exactly when i <= n; the item is then child i, the children
\* before it and behind it keep their order; with i > n the call fails with
\* the 'too big' error and the level is as it was.
C6_PositionalInsert ==
    (/\ Inserted
     /\ Valid(mid, Front(InsertPath))
     /\ NodeAt(mid, Front(InsertPath)).kind = "List")
    => LET level == NodeAt(mid, Front(InsertPath))
           n == Len(level.list)
           i == Last(InsertPath)
       IN /\ (status = "ok") <=> (i <= n)
          /\ i <= n =>
                LET now == NodeAt(After, Front(InsertPath)).list
                IN /\ Len(now) = n + 1
                   /\ now[i + 1] = InsertedItem
                   /\ \A k \in 1..i : now[k] = level.list[k]
                   /\ \A k \in (i + 1)..n : now[k + 1] = level.list[k]
                   /\ After = ReplaceAt(mid, Front(InsertPath),
                                        [level EXCEPT !.list = now])
          /\ i > n => status = TooBig /\ After = mid

\* An item is inserted at [2] into a level of two children and is the last
\* of three.
C6_Witness ==
    /\ cmd.op = "move" /\ cmd.to = <<2>> /\ status = "ok"
    /\ Len(mid.list) = 2
    /\ Len(After.list) = 3 /\ After.list[3] = item

\* C7: a successful add_item makes the item the last child of the node the
\* whole path addresses, behind that node's children in their order; an
\* Entry addressed by the path becomes a sublist with its title and date.
C7_AddAppendsAtPath ==
    (cmd.op = "add" /\ status = "ok")
    => /\ Valid(Before, cmd.index)
       /\ LET target == NodeAt(Before, cmd.index)
              new == Entry(IF cmd.name # NoName THEN cmd.name ELSE cmd.info.title,
                           IF cmd.name # NoName THEN NoDate ELSE cmd.info.date)
          IN After = ReplaceAt(Before, cmd.index,
                               [kind |-> "List", title |-> target.title,
                                date |-> target.date,
                                list |-> target.list \o <<new>>])

\* An item is added to a sublist that has a child already.
C7_Witness ==
    /\ cmd.op = "add" /\ status = "ok" /\ Len(cmd.index) = 1
    /\ NodeAt(Before, cmd.index).kind = "List"
    /\ Len(NodeAt(After, cmd.index).list) = 2

(***************************************************************************)
(* The error a path meets, segment by segment.  Segment k is judged at the *)
(* node the k - 1 segments before it address.  At a sublist (or the root)  *)
(* it is bad when it addresses no child: i >= n, and i > n for the last    *)
(* segment of insert_item.  At an Entry every further segment is bad,      *)
(* except the last segment of insert_item, which is bad when it is not 0.  *)
(* The first bad segment names the error.                                  *)
(***************************************************************************)
SegmentError(self, p, fn, k) ==
    LET at == NodeAt(self, SubSeq(p, 1, k - 1))
        i == p[k]
        final == k = Len(p)
    IN IF at.kind = "Entry"
       THEN IF fn = "insert_item" /\ final
            THEN (IF i > 0 THEN TooBig ELSE "ok")
            ELSE NonList
       ELSE IF fn = "insert_item" /\ final
            THEN (IF i > Len(at.list) THEN TooBig ELSE "ok")
            ELSE (IF i >= Len(at.list) THEN TooBig ELSE "ok")

\* Segment k is the first bad one: the segments before it address nodes.
FirstBad(self, p, fn, k) ==
    /\ Valid(self, SubSeq(p, 1, k - 1))
    /\ \A j \in 1..(k - 1) : SegmentError(self, p, fn, j) = "ok"
    /\ SegmentError(self, p, fn, k) # "ok"

ExpectedError(self, p, fn) ==
    IF \E k \in 1..Len(p) : FirstBad(self, p, fn, k)
    THEN SegmentError(self, p, fn, CHOOSE k \in 1..Len(p) : FirstBad(self, p, fn, k))
    ELSE "ok"

\* C8: add_item, remove_item and insert_item fail exactly at the first bad
\* segment of the path, with that segment's error: 'too big' for a segment
\* that addresses no child, 'sub-indexing a non-list' for a descent through
\* an Entry.
C8_FirstInvalidSegmentDecides ==
    /\ (cmd.op = "add" /\ cmd.info.ok)
           => status = ExpectedError(Before, cmd.index, "add_item")
    /\ (cmd.op \in {"remove", "move", "edit"} /\ item.kind = "None")
           => /\ status = ExpectedError(Before, cmd.index, "remove_item")
              /\ status # "ok"
    /\ Removed => ExpectedError(Before, cmd.index, "remove_item") = "ok"
    /\ Inserted => status = ExpectedError(mid, InsertPath, "insert_item")

\* A path with two bad segments: the first descends through an Entry, a
\* later one is out of range; the error is the first one's.
C8_Witness ==
    /\ cmd.op \in {"add", "remove"} /\ status = NonList
    /\ Len(cmd.index) = 3
    /\ cmd.index[3] > 0

\* The items below a list, each as its title and date, as a bag.
RECURSIVE ItemBag(_)
ItemBag(self) ==
    LET RECURSIVE Sum(_)
        Sum(k) == IF k = 0 THEN EmptyBag
                  ELSE SetToBag({<<self.list[k].title, self.list[k].date>>})
                           (+) ItemBag(self.list[k]) (+) Sum(k - 1)
    IN Sum(Len(self.list))

\* remove_item as the sections on it say, by paths: the item at p is taken
\* out of its parent, and a parent left without children becomes an Entry.
RemoveAt(self, p) ==
    LET parent == NodeAt(self, Front(p))
        rest == SubSeq(parent.list, 1, Last(p))
                    \o SubSeq(parent.list, Last(p) + 2, Len(parent.list))
    IN ReplaceAt(self, Front(p),
                 IF Len(rest) = 0 /\ Len(p) >= 2
                 THEN [kind |-> "Entry", title |-> parent.title,
                       date |-> parent.date, list |-> <<>>]
                 ELSE [parent EXCEPT !.list = rest])

\* insert_item likewise: x becomes child Last(p) of the node Front(p)
\* addresses, which is a sublist afterwards.
InsertAt(self, p, x) ==
    LET parent == NodeAt(self, Front(p))
    IN ReplaceAt(self, Front(p),
                 [kind |-> "List", title |-> parent.title, date |-> parent.date,
                  list |-> SubSeq(parent.list, 1, Last(p)) \o <<x>>
                              \o SubSeq(parent.list, Last(p) + 1, Len(parent.list))])

\* C9: a move succeeds exactly when the removal at the from path succeeds
\* on the list as loaded and the insertion at the to path succeeds on the
\* list as the removal left it; the list is then the one the removal left,
\* with the removed item at the to path.
C9_MoveIsRemoveThenInsert ==
    cmd.op = "move" =>
        LET removable == ExpectedError(Before, cmd.index, "remove_item") = "ok"
        IN /\ (status = "ok") <=>
                  /\ removable
                  /\ ExpectedError(RemoveAt(Before, cmd.index), cmd.to,
                                   "insert_item") = "ok"
           /\ status = "ok" =>
                  /\ item = NodeAt(Before, cmd.index)
                  /\ After = InsertAt(RemoveAt(Before, cmd.index), cmd.to, item)
                  /\ NodeAt(After, cmd.to) = item

\* The first of three items is moved to [2] and is the last afterwards: as
\* the list was before the removal, [2] was the place in front of the last.
C9_Witness ==
    /\ cmd.op = "move" /\ status = "ok"
    /\ cmd.index = <<0>> /\ cmd.to = <<2>>
    /\ Len(Before.list) = 3
    /\ After.list[3] = Before.list[1]

\* C10: when remove_item succeeds and insert_item fails, the move ends in
\* the error of insert_item, nothing is saved, and the list in memory holds
\* every item it held before except the removed item and the items below it.
C10_MoveLosesItemOnInsertFailure ==
    (cmd.op = "move" /\ item.kind # "None"
        /\ ExpectedError(mid, cmd.to, "insert_item") # "ok")
    => /\ status = ExpectedError(mid, cmd.to, "insert_item")
       /\ ~saved
       /\ ItemBag(After) (+) SetToBag({<<item.title, item.date>>}) (+) ItemBag(item)
              = ItemBag(Before)
       /\ Size(After) = Size(Before) - 1 - Size(item)

\* A sublist with a child is removed and the insertion fails.
C10_Witness ==
    /\ cmd.op = "move" /\ status = TooBig
    /\ item.kind = "List"
    /\ Size(After) = Size(Before) - 2

(***************************************************************************)
(* Properties of the runs as wholes: what is saved, and when.              *)
(***************************************************************************)
ValidationErrors ==
    {TooBig, NonList, AlreadyExists, NotExists, CannotRemoveDefault,
     EditReverted, "List not found!", Cancelled}

MutatingOps ==
    {"add", "remove", "move", "edit", "sort", "list-add", "list-remove", "list-edit"}

\* C11: a run that ends in a validation failure has not saved after any
\* part of its mutation: the document is the one the run loaded, or the one
\* it generated when it found the file empty.
C11_NoSaveOnValidationFailure ==
    (pc = "done" /\ status \in ValidationErrors)
    => /\ ~saved
       /\ disk = loaded
       /\ ~disk.empty

\* A move whose removal succeeded and whose insertion failed: the list in
\* memory has changed, the document has not.
C11_Witness ==
    /\ cmd.op = "move" /\ status = TooBig /\ item.kind # "None"
    /\ lists # pre
    /\ disk = loaded /\ disk.lists = pre

\* C12 as claimed: when a run ends with 'Cancelled', neither the mapping in
\* memory nor the document differs from what it was before the command.
C12_CancelBeforeAnyMutation ==
    (pc = "done" /\ status = Cancelled) => lists = pre /\ disk = loaded

\* C12, amended: a declined confirmation ends the run before any save, so
\* the document is as it was; list --remove has not touched the mapping in
\* memory; remove has already taken the item out of the list in memory,
\* remove_item being called before the question is asked.
C12_CancelBeforeAnySave ==
    (pc = "done" /\ status = Cancelled)
    => /\ ~saved
       /\ disk = loaded
       /\ cmd.op \in {"remove", "list-remove"}
       /\ cmd.op = "list-remove" => lists = pre
       /\ cmd.op = "remove" =>
              /\ item = NodeAt(Before, cmd.index)
              /\ After = RemoveAt(Before, cmd.index)
              /\ \A n \in DOMAIN pre \ {ActiveName} : lists[n] = pre[n]
              /\ DOMAIN lists = DOMAIN pre

\* The removal of an entry is declined: the entry is gone from memory.
C12_Witness ==
    /\ cmd.op = "remove" /\ status = Cancelled /\ cmd.confirm = "n"
    /\ item.kind = "Entry"
    /\ Size(After) = Size(Before) - 1
    /\ disk.lists = pre

\* The answer counts as yes.
CountsAsYes(answer, entryDefault) ==
    \/ answer \in {"y", "Y"}
    \/ answer = "" /\ entryDefault

\* C13: a removal is saved exactly when the answer counts as yes: "y" in
\* either case, or the empty answer when the removed node is an Entry.
\* Every other answer cancels and leaves the document as it was.
C13_RemovalSavedIffYes ==
    /\ (cmd.op = "remove" /\ item.kind # "None")
           => /\ saved <=> CountsAsYes(cmd.confirm, item.kind = "Entry")
              /\ saved => status = "ok" /\ disk.lists[ActiveName] = mid
              /\ ~saved => status = Cancelled /\ disk = loaded
    /\ (cmd.op = "list-remove" /\ cmd.name # DEFAULT_LIST /\ cmd.name \in DOMAIN pre)
           => /\ saved <=> CountsAsYes(cmd.confirm, FALSE)
              /\ saved => status = "ok" /\ cmd.name \notin DOMAIN disk.lists
              /\ ~saved => status = Cancelled /\ disk = loaded

\* The removal of an entry is confirmed with "Y" and saved.
C13_Witness ==
    /\ cmd.op = "remove" /\ item.kind = "Entry" /\ cmd.confirm = "Y"
    /\ saved /\ disk.lists[ActiveName] = mid

\* C14 as claimed: the saved mapping always has the key "to-do".
C14_DefaultListPersisted ==
    ~disk.empty => DEFAULT_LIST \in DOMAIN disk.lists

\* C15: list --remove with the name "to-do" fails, whatever lists exist;
\* no answer is asked for, the mapping and the document stay as they were.
C15_DefaultListNotRemovable ==
    (cmd.op = "list-remove" /\ cmd.name = DEFAULT_LIST)
    => /\ status = CannotRemoveDefault
       /\ ~saved
       /\ lists = pre
       /\ disk = loaded

\* list --remove to-do while another list exists.
C15_Witness ==
    /\ cmd.op = "list-remove" /\ cmd.name = DEFAULT_LIST
    /\ Cardinality(DOMAIN pre) = 2
    /\ DEFAULT_LIST \in DOMAIN disk.lists

\* C16: after every successful mutating command the document is the whole
\* mapping in memory as the mutation left it.
C16_SuccessIsSavedWholesale ==
    (pc = "done" /\ status = "ok" /\ cmd.op \in MutatingOps)
    => /\ saved
       /\ ~disk.empty
       /\ DOMAIN disk.lists = DOMAIN lists
       /\ \A n \in DOMAIN lists : disk.lists[n] = lists[n]

\* A list is added while the default list has an item: both are saved.
C16_Witness ==
    /\ cmd.op = "list-add" /\ status = "ok"
    /\ Cardinality(DOMAIN lists) = 2
    /\ disk.lists = lists
    /\ \E n \in DOMAIN lists : Len(lists[n].list) = 0
    /\ \E n \in DOMAIN lists : Len(lists[n].list) > 0

(***************************************************************************)
(* Properties of sort.                                                     *)
(***************************************************************************)
SortRan == pc = "done" /\ cmd.op = "sort" /\ status = "ok"

HasDate(x) == x.date.kind # "None"

\* The undated children of a list, in their order.
Undated(self) == SelectSeq(self.list, LAMBDA x : ~HasDate(x))

\* The sublist of a titled child of a list (titles are distinct per document).
ChildTitled(self, t) ==
    self.list[CHOOSE k \in 1..Len(self.list) : self.list[k].title = t]

\* C17: sort is idempotent: sorting the sorted tree again gives the same
\* tree, that is the same order of children at every level.
C17_SortIdempotent ==
    SortRan => /\ After = sort(Before)
               /\ sort(After) = After
               /\ sort(sort(Before)) = sort(Before)

\* A tree with a sublist among its children, which the sort has reordered.
C17_Witness ==
    /\ SortRan
    /\ After # Before
    /\ Len(After.list) > 1
    /\ \E k \in 1..Len(After.list) : After.list[k].kind = "List"

\* In the list and in every sublist below it, no undated child stands in
\* front of a dated one.
RECURSIVE UndatedLast(_)
UndatedLast(self) ==
    /\ \A j, k \in 1..Len(self.list) :
           (j < k /\ ~HasDate(self.list[j])) => ~HasDate(self.list[k])
    /\ \A k \in 1..Len(self.list) : UndatedLast(self.list[k])

\* In the list and in every sublist below it, the undated children are in
\* the order they had in the tree `old`.
RECURSIVE UndatedStable(_, _)
UndatedStable(old, new) ==
    /\ Undated(new) = [k \in 1..Len(Undated(old)) |->
                           IF Undated(old)[k].kind = "List"
                           THEN ChildTitled(new, Undated(old)[k].title)
                           ELSE Undated(old)[k]]
    /\ \A k \in 1..Len(old.list) :
           old.list[k].kind = "List"
               => UndatedStable(old.list[k], ChildTitled(new, old.list[k].title))

\* C18 as claimed: after sort, at every level every undated child comes
\* after every dated child, whatever the date, and the undated children
\* keep their order.
C18_UndatedAfterEveryDated ==
    SortRan => UndatedLast(After) /\ UndatedStable(Before, After)

\* In the list and in every sublist below it the keys do not decrease.
RECURSIVE SortedAtEveryLevel(_)
SortedAtEveryLevel(self) ==
    /\ \A k \in 1..(Len(self.list) - 1) :
           KeyLeq(SortKey(self.list[k]), SortKey(self.list[k + 1]))
    /\ \A k \in 1..Len(self.list) : SortedAtEveryLevel(self.list[k])

\* new is old with the children of each list in some other order: kind,
\* title, date and parent of every node are the same.
RECURSIVE SameUpToOrder(_, _)
SameUpToOrder(old, new) ==
    /\ old.kind = new.kind
    /\ old.title = new.title
    /\ old.date = new.date
    /\ Len(old.list) = Len(new.list)
    /\ \E f \in Permutations(1..Len(old.list)) :
           \A k \in 1..Len(old.list) : SameUpToOrder(old.list[k], new.list[f[k]])

\* C19: after sort the children of the root and of every sublist at every
\* depth are in non-decreasing order of the key, each list's children are a
\* permutation of those it had, and no node has changed kind, title, date
\* or parent.
C19_SortRecursivePreserving ==
    SortRan => SortedAtEveryLevel(After) /\ SameUpToOrder(Before, After)

\* A sublist that was out of order has been sorted.
C19_Witness ==
    /\ SortRan
    /\ \E k \in 1..Len(Before.list) :
           /\ Before.list[k].kind = "List"
           /\ ~SortedAtEveryLevel(Before.list[k])
           /\ After.list[k].title = Before.list[k].title
           /\ After.list[k] # Before.list[k]

(***************************************************************************)
(* Properties of to_string.                                                *)
(***************************************************************************)
Described == pc = "done" /\ shown.date.kind # "None"

\* The days from today to the described date.
Offset == shown.date.day - today

\* C20 as claimed: a date without a time that is 2 to 7 days ahead is shown
\* as "upcoming <Weekday>" and nothing more.
C20_UpcomingWeekdayOnly ==
    (Described /\ shown.date.kind = "Date" /\ Offset \in 2..7)
    => shown.text = [date_string |-> Formatted("upcoming %A", Weekday(shown.date.day)),
                     time |-> NoTime,
                     days_till |-> NoCount]

\* C20, amended: a date without a time that is 2 to 7 days ahead is shown
\* as "upcoming <Weekday>; in N days", N being the number of days ahead.
C20_UpcomingWeekdayWithCount ==
    (Described /\ shown.date.kind = "Date" /\ Offset \in 2..7)
    => shown.text = [date_string |-> Formatted("upcoming %A", Weekday(shown.date.day)),
                     time |-> NoTime,
                     days_till |-> Count("; in {} {}", Offset, "days")]

\* A date three days ahead has been shown, with its count.
C20_Witness ==
    /\ Described /\ shown.date.kind = "Date"
    /\ Offset = 3
    /\ shown.text.date_string.format = "upcoming %A"
    /\ shown.text.days_till.difference = 3

\* C21: for a date more than 7 days away the count is appended: in days,
\* N the number of days, while it is less than 14 days away, and in whole
\* weeks, N the days divided by 7 and rounded down, from 14 days on;
\* "; in N <unit>" for a date ahead and "; N <unit> ago" for a date past.
C21_CountSuffix ==
    (Described /\ Abs(Offset) > 7)
    => shown.text.days_till =
           Count(IF Offset > 0 THEN "; in {} {}" ELSE "; {} {} ago",
                 IF Abs(Offset) < 14 THEN Abs(Offset) ELSE Abs(Offset) \div 7,
                 IF Abs(Offset) < 14 THEN "days" ELSE "weeks")

\* A date 20 days past has been shown as 2 weeks ago.
C21_Witness ==
    /\ Described
    /\ Offset = -20
    /\ shown.text.days_till = Count("; {} {} ago", 2, "weeks")

(***************************************************************************)
(* Properties of what is written.                                          *)
(***************************************************************************)
Rendered == pc = "done" /\ status = "ok" /\ cmd.op \notin ListOps

\* The places of the output at which a title, a newline stands.
TitlePlaces == {k \in 1..Len(out) : out[k].what = "title"}
NewlinePlaces == {k \in 1..Len(out) : out[k].what = "newline"}

\* The number of the line on which place k of the output stands, from 1.
LineOf(k) == 1 + Cardinality({j \in NewlinePlaces : j < k})

\* The titles of a list and of all that is below it, in the order of the
\* document: a list, then its children, each with what is below it.
RECURSIVE PreorderTitles(_)
PreorderTitles(self) ==
    LET RECURSIVE Below(_)
        Below(k) == IF k = 0 THEN <<>>
                    ELSE Below(k - 1) \o PreorderTitles(self.list[k])
    IN <<self.title>> \o Below(Len(self.list))

\* C22: a list without empty sublists is written with its header and every
\* node below it on a line of its own, each line ended by one newline: the
\* n-th node is on the n-th line, there are as many lines as nodes, so no
\* line is blank and none holds two nodes, and the output ends with the
\* newline of its last line, at whatever depth the last node is.
C22_OneLinePerNode ==
    (Rendered /\ NoEmptySublist(After))
    => /\ Len(out) > 0
       /\ out[Len(out)] = Newline
       /\ out[Len(out) - 1] # Newline
       /\ Cardinality(NewlinePlaces) = 1 + Size(After)
       /\ Cardinality(TitlePlaces) = 1 + Size(After)
       /\ \A k \in TitlePlaces :
              /\ LineOf(k) = Cardinality({j \in TitlePlaces : j <= k})
              /\ out[k].title = PreorderTitles(After)[LineOf(k)]
       /\ \A k \in NewlinePlaces : k + 1 \notin NewlinePlaces

\* The last child of the root is a sublist whose last child is a sublist.
C22_Witness ==
    /\ Rendered
    /\ Len(After.list) > 0
    /\ LET last == After.list[Len(After.list)]
       IN /\ last.kind = "List"
          /\ last.list[Len(last.list)].kind = "List"
    /\ out[Len(out)] = Newline

(***************************************************************************)
(* Properties of edit, and of the calls that fail.                         *)
(***************************************************************************)
\* C23: a successful edit changes the title and the date of the node at its
\* path and nothing else: the tree is the old tree with that node's title
\* and date replaced, so its kind, its children, its place, its parent,
\* demoted and promoted again or not, and all other nodes are as before.
C23_EditChangesTitleAndDateOnly ==
    (pc = "done" /\ cmd.op = "edit" /\ status = "ok")
    => /\ Valid(Before, cmd.index)
       /\ After = ReplaceAt(Before, cmd.index,
                            [NodeAt(Before, cmd.index)
                                 EXCEPT !.title = cmd.info.title,
                                        !.date = cmd.info.date])
       /\ DOMAIN lists = DOMAIN pre
       /\ \A n \in DOMAIN pre \ {ActiveName} : lists[n] = pre[n]

\* The only child of a sublist is edited: the sublist was an Entry in
\* between and is a sublist again.
C23_Witness ==
    /\ pc = "done" /\ cmd.op = "edit" /\ status = "ok"
    /\ Len(cmd.index) = 2
    /\ mid.list[cmd.index[1] + 1].kind = "Entry"
    /\ After.list[cmd.index[1] + 1].kind = "List"
    /\ After # Before

\* The last run called insert_item and the call returned an error.
InsertFailed == pc = "done" /\ Inserted /\ status \in {TooBig, NonList}

\* C24 as claimed: a call of insert_item that returns an error leaves the
\* tree as it was before the call (as remove_item had left it); no Entry
\* has become a sublist.
C24_FailedInsertLeavesTree ==
    InsertFailed => After = mid

\* The last run called add_item, remove_item, and the call returned an error.
AddFailed == pc = "done" /\ cmd.op = "add" /\ status \in {TooBig, NonList}
RemoveFailed ==
    /\ pc = "done"
    /\ cmd.op \in {"remove", "move", "edit"}
    /\ item.kind = "None"
    /\ status \in {TooBig, NonList}

\* C25: a call of add_item or of remove_item that returns an error leaves
\* the tree as it was before the call: no child is gone, no node has
\* changed its kind.
C25_FailedAddRemoveLeaveTree ==
    /\ AddFailed => After = Before /\ lists = pre
    /\ RemoveFailed => After = Before /\ mid = Before /\ lists = pre

\* An add whose path goes through an Entry with more than one segment left,
\* in a tree with a sublist.
C25_Witness ==
    /\ AddFailed
    /\ status = NonList
    /\ Size(Before) > 1
    /\ \E k \in 1..Len(Before.list) : Before.list[k].kind = "List"

(***************************************************************************)
(* Properties of the mapping of the lists.                                 *)
(***************************************************************************)
KeysAreTitles(m) == \A n \in DOMAIN m : m[n].title = n

\* C26: every list of the mapping stands under the key that is its title,
\* in the document from the generated default list on and in memory at the
\* end of every run, whatever commands have run.
C26_KeyIsTitle ==
    /\ ~disk.empty => KeysAreTitles(disk.lists)
    /\ pc = "done" => KeysAreTitles(lists) /\ KeysAreTitles(pre)

\* A list has been renamed and saved next to the default list.
C26_Witness ==
    /\ pc = "done" /\ cmd.op = "list-edit" /\ status = "ok"
    /\ cmd.name # cmd.info.title
    /\ cmd.info.title \in DOMAIN disk.lists
    /\ cmd.name \notin DOMAIN disk.lists
    /\ Cardinality(DOMAIN disk.lists) = 2

====
